---- MODULE Spec2Model ----
(***************************************************************************)
(* Model of the mail pipeline of llm_email: the check loop of              *)
(* EmailManagementSystem (main.py), the enrichment of EmailProcessor, the  *)
(* vector store of RAGService and the dispatch of NotificationService.     *)
(*                                                                         *)
(* Text is abstracted to token sequences: "p" is prose, "{" "}" "[" "]"    *)
(* are the JSON delimiters, "v" is a JSON scalar and the field tokens are  *)
(* "name: value" members of a JSON object.  None is the string "none".     *)
(***************************************************************************)
EXTENDS Integers, Sequences, FiniteSets, TLC

\* Bound: the number of mails the server ever holds.
MaxMails == 3

\* Bound: the number of mails that arrive while the loop is checked for
\* progress (the others were seen before the program was constructed).
LoopMails == 2

\* Config.EMAIL_CHECK_INTERVAL (default) and the literal of time.sleep(60).
CheckInterval == 300
Backoff == 60

VARIABLES
    running,        \* EmailManagementSystem.running
    pc,             \* position of the check-loop thread
    arrived,        \* number of mails that arrived on the server so far
    unseen,         \* ids of the mails the server reports as UNSEEN
    fetched,        \* per mail id, the get_new_emails calls that returned it
    new_emails,     \* new_emails of the current cycle
    processed,      \* processed_emails of the current cycle
    enrichIdx,      \* mails the loop of batch_process_emails has iterated over
    vector_store,   \* RAGService.vector_store: sequence of index entries
    snapshot,       \* the index persisted under VECTOR_DB_PATH
    sent,           \* calls of the send primitive made in the current cycle
    cycleRaised,    \* an exception reached the try block of the last cycle
                    \* (cleared when the next fetch returns)
    sleepFor,       \* argument of the time.sleep the loop is in (0: none yet)
    notifEnabled,   \* NotificationService.is_notification_enabled()
    addCalls,       \* add_documents calls made in the current cycle
    saveCalls,      \* save_local calls made in the current cycle
    \* RAGService seen by concurrent callers (the check loop's thread adds,
    \* threads of the API rebuild, search and ask):
    index_files,    \* index.faiss and index.pkl under VECTOR_DB_PATH
    add_pc,         \* position of the thread in add_emails_to_vector_store
    add_emails,     \* its argument
    add_failed,     \* id of the mail whose chunk the embedding call failed on
    add_ret,        \* its last return value, and why
    reb_pc,         \* position of the thread in rebuild_vector_store
    reb_emails,     \* its argument
    reb_ret,        \* its last return value, and why
    ask_pc,         \* position of the thread in ask_question
    source_docs,    \* source_docs of ask_question
    context_docs,   \* the documents the QA chain's retriever gave the prompt
    ask_ret,        \* the last return value of ask_question
    qa_ready,       \* self.qa_chain is not None
    qa_same,        \* the QA chain's retriever holds the object self.vector_store
    qa_view,        \* entries of the store the QA chain's retriever holds
    fed,            \* ids of the mails given to the index by calls that added
    dirtyRead,      \* a search read the index while a writer was in flight
    calls,          \* rebuild_vector_store and ask_question calls made so far
    \* The text functions, applied to one raw mail and one model response:
    raw_mail,       \* the raw mail: its Date header, the lengths of its parts
    email_content,  \* the results of _prepare_email_content, one per build
    cls_input,      \* the email_content given to the classification prompt
    result_text,    \* the text a completion call returned
    parsed,         \* what the parsing of result_text gave
    startup,        \* the branch _load_or_init_vector_store took
    \* start() and stop() with every loop thread they leave alive:
    threads,        \* position of each thread running _email_check_loop
    email_check_thread, \* EmailManagementSystem.email_check_thread (0: None)
    stop_pc,        \* position of the caller inside stop()
    connection,     \* EmailReceiver.connection is open
    crashed         \* the process was killed

loopVars == <<running, pc, arrived, unseen, fetched, new_emails, processed, enrichIdx,
              sent, cycleRaised, sleepFor, notifEnabled, addCalls, saveCalls>>

ragVars == <<index_files, add_pc, add_emails, add_failed, add_ret,
             reb_pc, reb_emails, reb_ret, ask_pc, source_docs, context_docs,
             ask_ret, qa_ready, qa_same, qa_view, fed, dirtyRead, calls, crashed>>

textVars == <<raw_mail, email_content, cls_input, result_text, parsed>>

threadVars == <<threads, email_check_thread, stop_pc, connection>>

\* The state of the parts that are looked at on their own.
otherVars == <<textVars, startup, threadVars>>

vars == <<running, pc, arrived, unseen, fetched, new_emails, processed, enrichIdx, vector_store,
          snapshot, sent, cycleRaised, sleepFor, notifEnabled,
          addCalls, saveCalls, ragVars, otherVars>>

(***************************************************************************)
(* Email (email_model.py): the enrichment fields start as None.  sumCalls, *)
(* clsCalls count the completion calls made for the mail; clsApplied says  *)
(* that a classification result was written to the record.                 *)
(***************************************************************************)
Email(id) ==
    [id |-> id, importance |-> "none", category |-> "none",
     summary |-> "none", key_info |-> "none",
     sumCalls |-> 0, clsCalls |-> 0, clsApplied |-> FALSE]

(***************************************************************************)
(* Model output and its parsing (email_processor.py).                      *)
(***************************************************************************)
\* "s": a summary; "b": key_points holding a non-string item; "ih": importance
\* high; "cw": category work.
FieldTokens == {"s", "b", "ih", "cw"}

NoneValue == [kind |-> "none", fields |-> {}]

Inner(text) == {text[i] : i \in 2..(Len(text) - 1)}

\* json.loads: an object of known members, a list of scalars, or an error.
json_loads(text) ==
    IF Len(text) >= 2 /\ text[1] = "{" /\ text[Len(text)] = "}"
       /\ Inner(text) \subseteq FieldTokens
    THEN [ok |-> TRUE, value |-> [kind |-> "obj", fields |-> Inner(text)]]
    ELSE IF Len(text) >= 2 /\ text[1] = "[" /\ text[Len(text)] = "]"
            /\ Inner(text) \subseteq {"v"}
    THEN [ok |-> TRUE, value |-> [kind |-> "list", fields |-> Inner(text)]]
    ELSE [ok |-> FALSE, value |-> NoneValue]

\* re.search(r'\{.*\}', text, re.DOTALL): greedy, first "{" to last "}".
re_search_braces(text) ==
    LET opens  == {i \in 1..Len(text) : text[i] = "{"}
        first  == CHOOSE i \in opens : \A j \in opens : i <= j
        closes == {i \in 1..Len(text) : text[i] = "}" /\ i > first}
        last   == CHOOSE i \in closes : \A j \in closes : j <= i
    IN IF opens = {} \/ closes = {}
       THEN [found |-> FALSE, span |-> <<>>]
       ELSE [found |-> TRUE, span |-> SubSeq(text, first, last)]

\* The try/except ladder shared by both calls.
parse_result(text) ==
    LET direct == json_loads(text)
        m      == re_search_braces(text)
    IN IF direct.ok THEN direct.value
       ELSE IF m.found /\ json_loads(m.span).ok THEN json_loads(m.span).value
       ELSE NoneValue

\* An outcome of a completion call: it raises, or it returns text.
CallRaises == [raises |-> TRUE, text |-> <<>>]
Returns(t) == [raises |-> FALSE, text |-> t]

SumResponses ==
    { <<"p">>, <<"{", "s", "}">>, <<"p", "{", "s", "}", "p">>,
      <<"{", "s", "b", "}">>, <<"[", "v", "]">>, <<"{", "}">>,
      <<"{", "p", "}">> }

ClsResponses ==
    { <<"p">>, <<"{", "ih", "cw", "}">>, <<"p", "{", "ih", "cw", "}", "p">>,
      <<"{", "cw", "}">>, <<"[", "v", "]">>, <<"{", "}">>,
      <<"{", "p", "}">> }

SumOutcomes == {CallRaises} \cup {Returns(t) : t \in SumResponses}
ClsOutcomes == {CallRaises} \cup {Returns(t) : t \in ClsResponses}

summarize_email(out) == IF out.raises THEN NoneValue ELSE parse_result(out.text)

classify_importance(out) == IF out.raises THEN NoneValue ELSE parse_result(out.text)

\* Python truth value of a parse result: None, {} and [] are false.
Truthy(v) == v.kind # "none" /\ v.fields # {}

\* v.get(...) raises AttributeError unless v is a dict.
GetRaises(v) == Truthy(v) /\ v.kind # "obj"


(***************************************************************************)
(* EmailProcessor.process_email.                                           *)
(***************************************************************************)
\* Lines 121-128: the summary fields are written from the parsed object.
ApplySummary(email, sr) ==
    [email EXCEPT !.summary  = IF "s" \in sr.fields THEN "text" ELSE "",
                  !.key_info = IF "b" \in sr.fields THEN "bad" ELSE "empty"]

\* Lines 133-134: .get('importance', 'medium') and .get('category', 'other').
ApplyClassification(email, ir) ==
    [email EXCEPT !.importance = IF "ih" \in ir.fields THEN "high" ELSE "medium",
                  !.category   = IF "cw" \in ir.fields THEN "work" ELSE "other",
                  !.clsApplied = TRUE]

\* Lines 120-128; a truthy non-dict result raises at line 122, and the
\* handler of line 139 returns the mail as it is.
SummaryStep(email, sr) ==
    IF Truthy(sr) /\ ~GetRaises(sr) THEN ApplySummary(email, sr) ELSE email

ClassificationStepDefaulting(email, ir) ==
    IF Truthy(ir) /\ ~GetRaises(ir) THEN ApplyClassification(email, ir)
    ELSE [email EXCEPT !.importance = "medium", !.category = "other"]

\* Lines 131-134, with the handler of line 139 for a non-dict result.
ClassificationStep(email, ir) ==
    IF Truthy(ir) /\ ~GetRaises(ir) THEN ApplyClassification(email, ir) ELSE email

process_email(email, sumOut, clsOut) ==
    LET sr == summarize_email(sumOut)
        e0 == [email EXCEPT !.sumCalls = @ + 1]
        e1 == SummaryStep(e0, sr)
        ir == classify_importance(clsOut)
        e2 == [e1 EXCEPT !.clsCalls = @ + 1]
    IN IF GetRaises(sr) THEN e1 ELSE ClassificationStep(e2, ir)

\* One iteration of batch_process_emails: a failure of the mail drops it.
batch_stepDropping(done, email, sumOut, clsOut) ==
    LET e == process_email(email, sumOut, clsOut)
    IN IF e.clsApplied THEN Append(done, e) ELSE done

\* One iteration of the loop of batch_process_emails (lines 300-306).
batch_step(done, email, sumOut, clsOut) ==
    Append(done, process_email(email, sumOut, clsOut))

(***************************************************************************)
(* RAGService: documents, chunks and add_emails_to_vector_store.           *)
(***************************************************************************)
\* FAISS.from_texts(["初始化文档"]): one entry without metadata (mail id 0).
Placeholder == [email_id |-> 0, seq |-> 1, part |-> "init"]

\* '; '.join(...) of line 257-263 raises TypeError on a non-string item.
PrepareRaises(email) == email.key_info = "bad"

\* _prepare_email_document: the summary is in the content only when set and
\* non-empty; the body always is.
prepare_email_document(email) ==
    [email_id |-> email.id,
     parts |-> IF email.summary \in {"none", ""} THEN <<"body">>
               ELSE <<"summary", "body">>]

\* text_splitter.split_documents: the chunks in order, each with the metadata.
split_documents(doc) ==
    [i \in 1..Len(doc.parts) |->
        [email_id |-> doc.email_id, seq |-> i, part |-> doc.parts[i]]]

RECURSIVE all_docs(_)
all_docs(emails) ==
    IF emails = <<>> THEN <<>>
    ELSE IF PrepareRaises(Head(emails)) THEN all_docs(Tail(emails))
    ELSE split_documents(prepare_email_document(Head(emails))) \o all_docs(Tail(emails))

AddOutcomes == {"ok", "embed_fail", "save_fail"}

\* add_emails_to_vector_store: the store, the snapshot and the calls made.
add_emails_to_vector_store(store, snap, emails, out) ==
    LET docs == all_docs(emails)
    IN IF docs = <<>> THEN
            [store |-> store, snap |-> snap, adds |-> 0, saves |-> 0]
       ELSE IF out = "embed_fail" THEN
            [store |-> store, snap |-> snap, adds |-> 1, saves |-> 0]
       ELSE IF out = "save_fail" THEN
            [store |-> store \o docs, snap |-> snap, adds |-> 1, saves |-> 1]
       ELSE [store |-> store \o docs, snap |-> store \o docs, adds |-> 1, saves |-> 1]

\* The ids of a set in ascending order (the order of the IMAP search result).
Ascending(S) ==
    CHOOSE q \in [1..Cardinality(S) -> S] :
        \A i, j \in 1..Cardinality(S) : i < j => q[i] < q[j]

\* success_count of lines 205-222: the mails whose document was prepared.
success_count(emails) == Len(SelectSeq(emails, LAMBDA e : ~PrepareRaises(e)))

\* new_vector_store of rebuild_vector_store (lines 382-413).
rebuild_store(emails) == <<Placeholder>> \o all_docs(emails)

\* The distance of an entry's embedding to the embedding of the query: it
\* depends on the text of the chunk only, not on its metadata.
Distance(entry) ==
    IF entry.part = "summary" THEN 1 ELSE IF entry.part = "body" THEN 2 ELSE 3

\* The place of entry i in the result of the index: by distance, entries of
\* equal distance in the order of their position in the index.
Rank(store, i) ==
    1 + Cardinality({j \in 1..Len(store) :
                        \/ Distance(store[j]) < Distance(store[i])
                        \/ Distance(store[j]) = Distance(store[i]) /\ j < i})

\* vector_store.similarity_search_with_score(query, k).
similarity_search(store, k) ==
    LET n == IF k < Len(store) THEN k ELSE Len(store)
    IN [r \in 1..n |-> store[CHOOSE i \in 1..Len(store) : Rank(store, i) = r]]

\* search_emails (lines 286-309): the entries found, in the order found.
search_emails(store, k) == similarity_search(store, k)

\* The except branch of ask_question lets the exception through.
ask_failureRaising == [answer |-> "raised", source_documents |-> <<>>]

\* The return value of the except branch of ask_question (lines 344-349).
ask_failure == [answer |-> "error", source_documents |-> <<>>]

(***************************************************************************)
(* NotificationService.                                                    *)
(***************************************************************************)
SendOutcomes == {"ok", "false", "raise"}

Ids(emails) == [i \in 1..Len(emails) |-> emails[i].id]

\* The result of _send_email: False when the primitive returns False or raises.
Delivered(out) == out = "ok"

send_emailRetrying(kind, ids, out) ==
    IF Delivered(out) THEN << [kind |-> kind, ids |-> ids, ok |-> TRUE] >>
    ELSE << [kind |-> kind, ids |-> ids, ok |-> FALSE],
            [kind |-> kind, ids |-> ids, ok |-> FALSE] >>

\* _send_email: one call of the send primitive, and its result.
send_email(kind, ids, out) ==
    << [kind |-> kind, ids |-> ids, ok |-> Delivered(out)] >>

RECURSIVE send_each(_, _)
send_each(emails, out) ==
    IF emails = <<>> THEN <<>>
    ELSE send_email("single", <<Head(emails).id>>, out) \o send_each(Tail(emails), out)

send_batchPerMail(enabled, emails, out) ==
    IF ~enabled THEN <<>> ELSE send_each(emails, out)

\* send_batch_important_email_notification: the calls of the send primitive.
send_batch_important_email_notification(enabled, emails, out) ==
    IF ~enabled THEN <<>>
    ELSE IF Len(emails) > 1 THEN send_email("batch", Ids(emails), out)
    ELSE send_each(emails, out)

\* send_error_notification: the calls of the send primitive.
send_error_notification(enabled, out) ==
    IF ~enabled THEN <<>> ELSE send_email("error", <<>>, out)

IsHigh(email) == email.importance = "high"

important_emailsClassified(emails) ==
    SelectSeq(emails, LAMBDA e : e.importance # "none")

\* main.py lines 156-159.
important_emails(emails) == SelectSeq(emails, IsHigh)


(***************************************************************************)
(* The state machine.                                                      *)
(***************************************************************************)
\* No text function has been applied.
TextUnused ==
    /\ raw_mail = [date |-> "ok", header |-> 0, body |-> 0]
    /\ email_content = <<>>
    /\ cls_input = <<>>

ParseUnused == result_text = <<>> /\ parsed = <<>>

\* Bound: the loop threads alive at a time.
MaxThreads == 2

\* start() has not been called.
ThreadsUnused ==
    /\ threads = [t \in 1..MaxThreads |-> "none"]
    /\ email_check_thread = 0
    /\ stop_pc = "idle"
    /\ connection = FALSE

OtherUnused == TextUnused /\ ParseUnused /\ ThreadsUnused

\* RAGService after __init__ (lines 26-54): no caller is inside, the files
\* hold the constructed store, and the QA chain is there unless
\* _init_qa_chain failed (its handler at line 163 only logs).
RagConstructed(chain_ok) ==
    /\ index_files = [faiss |-> <<Placeholder>>, pkl |-> <<Placeholder>>]
    /\ add_pc = "idle" /\ add_emails = <<>> /\ add_failed = 0
    /\ add_ret = [count |-> 0, why |-> "none"]
    /\ reb_pc = "idle" /\ reb_emails = <<>>
    /\ reb_ret = [ok |-> FALSE, why |-> "none"]
    /\ ask_pc = "idle" /\ source_docs = <<>> /\ context_docs = <<>>
    /\ ask_ret = [answer |-> "none", source_documents |-> <<>>]
    /\ qa_ready = chain_ok /\ qa_same = TRUE /\ qa_view = <<Placeholder>>
    /\ fed = {}
    /\ dirtyRead = FALSE
    /\ calls = [reb |-> 0, ask |-> 0]
    /\ crashed = FALSE
    /\ startup = "initialized"

\* After construction (main.py lines 51-59, rag_service.py lines 102-130):
\* not running, no thread, and a store holding the placeholder entry.
\* `seen` mails of the server were flagged \Seen before construction.
Constructed(seen) ==
    /\ running = FALSE
    /\ pc = "idle"
    /\ arrived = seen
    /\ unseen = {}
    /\ fetched = [id \in 1..MaxMails |-> 0]
    /\ new_emails = <<>>
    /\ processed = <<>>
    /\ enrichIdx = 0
    /\ vector_store = <<Placeholder>>
    /\ snapshot = <<Placeholder>>
    /\ sent = <<>>
    /\ cycleRaised = FALSE
    /\ sleepFor = 0
    /\ notifEnabled \in BOOLEAN
    /\ addCalls = 0
    /\ saveCalls = 0
    /\ RagConstructed(TRUE)
    /\ OtherUnused

Init == Constructed(0)

LoopInit == Constructed(MaxMails - LoopMails)

\* A mail arrives on the server.
Arrive ==
    /\ arrived < MaxMails
    /\ arrived' = arrived + 1
    /\ unseen' = unseen \cup {arrived + 1}
    /\ UNCHANGED <<ragVars, otherVars>>
    /\ UNCHANGED <<fetched, running, pc, new_emails, processed, enrichIdx, vector_store, snapshot,
                   sent, cycleRaised, sleepFor, notifEnabled,
                   addCalls, saveCalls>>

\* start(), called while no check loop is alive.
Start ==
    /\ pc \in {"idle", "exited"}
    /\ running' = TRUE
    /\ pc' = "loop"
    /\ UNCHANGED <<ragVars, otherVars>>
    /\ UNCHANGED <<fetched, arrived, unseen, new_emails, processed, enrichIdx, vector_store,
                   snapshot, sent, cycleRaised, sleepFor,
                   notifEnabled, addCalls, saveCalls>>

\* stop(): the running flag is cleared.
Stop ==
    /\ running
    /\ running' = FALSE
    /\ UNCHANGED <<ragVars, otherVars>>
    /\ UNCHANGED <<fetched, pc, arrived, unseen, new_emails, processed, enrichIdx, vector_store,
                   snapshot, sent, cycleRaised, sleepFor,
                   notifEnabled, addCalls, saveCalls>>

\* while self.running: true, a cycle starts.
LoopTest ==
    /\ pc = "loop"
    /\ running
    /\ pc' = "fetch"
    /\ UNCHANGED <<ragVars, otherVars>>
    /\ UNCHANGED <<fetched, running, arrived, unseen, new_emails, processed, enrichIdx,
                   vector_store, snapshot, sent, cycleRaised, sleepFor,
                   notifEnabled, addCalls, saveCalls>>

\* while self.running: false, the loop ends.
LoopExit ==
    /\ pc = "loop"
    /\ ~running
    /\ pc' = "exited"
    /\ UNCHANGED <<ragVars, otherVars>>
    /\ UNCHANGED <<fetched, running, arrived, unseen, new_emails, processed, enrichIdx,
                   vector_store, snapshot, sent, cycleRaised,
                   sleepFor, notifEnabled, addCalls, saveCalls>>

\* The pc after an exception of the cycle: the loop thread ends.
OnCycleExceptionUncaught == "exited"

\* The pc after an exception of the cycle: caught at main.py line 167.
OnCycleException == "except"

\* The sleep after _check_and_process_emails returned: main.py line 118.
SleepAfterCycleBackoff == Backoff

SleepAfterCycle == CheckInterval

\* get_new_emails returns the mails `got` of the UNSEEN search (lines
\* 133-154); _fetch_email left the mails `kept` unflagged.  An empty result
\* returns at main.py line 145.
get_new_emails(got, kept) ==
    /\ new_emails' = [i \in 1..Cardinality(got) |-> Email(Ascending(got)[i])]
    /\ unseen' = unseen \ (got \ kept)
    /\ fetched' = [id \in 1..MaxMails |->
                       IF id \in got THEN fetched[id] + 1 ELSE fetched[id]]
    /\ IF got = {}
       THEN pc' = "sleep" /\ sleepFor' = SleepAfterCycle
       ELSE pc' = "enrich" /\ sleepFor' = sleepFor
    /\ cycleRaised' = FALSE
    /\ UNCHANGED <<ragVars, otherVars>>
    /\ UNCHANGED <<running, arrived, processed, enrichIdx, vector_store, snapshot, sent,
                   notifEnabled, addCalls, saveCalls>>

\* get_new_emails: the mails fetched (none when the connection, the folder
\* or the search fails); a fetched mail is flagged \Seen.
Fetch ==
    /\ pc = "fetch"
    /\ \E got \in SUBSET unseen : get_new_emails(got, {})

\* get_new_emails on a mailbox that does not take the flag (the STORE of
\* line 185 answers NO, which _fetch_email does not look at): mails fetched
\* for the first time stay UNSEEN.
FetchUnmarked ==
    /\ pc = "fetch"
    /\ \E got \in SUBSET unseen :
          \E kept \in (SUBSET {id \in got : fetched[id] = 0}) \ {{}} :
              get_new_emails(got, kept)

\* One iteration of batch_process_emails.
EnrichOne ==
    /\ pc = "enrich"
    /\ enrichIdx < Len(new_emails)
    /\ \E sumOut \in SumOutcomes, clsOut \in ClsOutcomes :
          processed' = batch_step(processed, new_emails[enrichIdx + 1],
                                  sumOut, clsOut)
    /\ enrichIdx' = enrichIdx + 1
    /\ UNCHANGED <<ragVars, otherVars>>
    /\ UNCHANGED <<fetched, running, pc, arrived, unseen, new_emails, vector_store,
                   snapshot, sent, cycleRaised, sleepFor,
                   notifEnabled, addCalls, saveCalls>>

\* batch_process_emails returns; add_emails_to_vector_store(processed_emails).
IndexBatch ==
    /\ pc = "enrich"
    /\ enrichIdx = Len(new_emails)
    /\ \E out \in AddOutcomes :
          LET r == add_emails_to_vector_store(vector_store, snapshot, processed, out)
          IN /\ vector_store' = r.store
             /\ snapshot' = r.snap
             /\ addCalls' = addCalls + r.adds
             /\ saveCalls' = saveCalls + r.saves
    /\ pc' = "notify"
    /\ UNCHANGED <<ragVars, otherVars>>
    /\ UNCHANGED <<fetched, running, arrived, unseen, new_emails, processed, enrichIdx, sent,
                   cycleRaised, sleepFor, notifEnabled>>

\* The dispatch lets the exception of the send primitive through.
DispatchRaisesUncaught(enabled, emails, out) ==
    enabled /\ emails # <<>> /\ out = "raise"

\* An exception leaves send_batch_important_email_notification: never, since
\* _send_email (lines 196-198), send_important_email_notification (lines
\* 87-89) and the batch dispatch (lines 126-128) each catch Exception.
DispatchRaises(enabled, emails, out) == FALSE

\* main.py lines 156-165: the dispatch for the high-importance mails.
Notify ==
    /\ pc = "notify"
    /\ \E out \in SendOutcomes :
          LET raised == DispatchRaises(notifEnabled, important_emails(processed), out)
          IN /\ sent' = IF important_emails(processed) # <<>>
                        THEN sent \o send_batch_important_email_notification(
                                         notifEnabled, important_emails(processed), out)
                        ELSE sent
             /\ cycleRaised' = (cycleRaised \/ raised)
             /\ pc' = IF raised THEN OnCycleException ELSE "sleep"
             /\ sleepFor' = IF raised THEN sleepFor ELSE SleepAfterCycle
    /\ UNCHANGED <<ragVars, otherVars>>
    /\ UNCHANGED <<fetched, running, arrived, unseen, new_emails, processed, enrichIdx,
                   vector_store, snapshot, notifEnabled, addCalls, saveCalls>>

\* An exception reaches the try block of _check_and_process_emails from the
\* stage the cycle is in (fetch; enrich or index; notify).  The locals of the
\* try block are dropped.
StageRaise ==
    /\ pc \in {"fetch", "enrich", "notify"}
    /\ cycleRaised' = TRUE
    /\ pc' = OnCycleException
    /\ new_emails' = <<>>
    /\ processed' = <<>>
    /\ enrichIdx' = 0
    /\ UNCHANGED <<ragVars, otherVars>>
    /\ UNCHANGED <<fetched, running, arrived, unseen, vector_store, snapshot, sent,
                   sleepFor, notifEnabled, addCalls, saveCalls>>

\* main.py lines 167-173: the error notification; the function then returns
\* normally and the loop sleeps at line 118.
HandleCycleError ==
    /\ pc = "except"
    /\ \E out \in SendOutcomes :
          sent' = sent \o send_error_notification(notifEnabled, out)
    /\ pc' = "sleep"
    /\ sleepFor' = SleepAfterCycle
    /\ UNCHANGED <<ragVars, otherVars>>
    /\ UNCHANGED <<fetched, running, arrived, unseen, new_emails, processed, enrichIdx,
                   vector_store, snapshot, cycleRaised,
                   notifEnabled, addCalls, saveCalls>>

\* time.sleep returns; the locals of the finished cycle are gone.
Wake ==
    /\ pc = "sleep"
    /\ pc' = "loop"
    /\ new_emails' = <<>>
    /\ processed' = <<>>
    /\ enrichIdx' = 0
    /\ sent' = <<>>
    /\ sleepFor' = 0
    /\ addCalls' = 0
    /\ saveCalls' = 0
    /\ UNCHANGED <<ragVars, otherVars>>
    /\ UNCHANGED <<fetched, running, arrived, unseen, vector_store, snapshot,
                   cycleRaised, notifEnabled>>

LoopStep ==
    \/ LoopTest
    \/ LoopExit
    \/ Fetch
    \/ EnrichOne
    \/ IndexBatch
    \/ Notify
    \/ StageRaise
    \/ HandleCycleError
    \/ Wake

Next ==
    \/ Arrive
    \/ Start
    \/ Stop
    \/ LoopStep

Spec == Init /\ [][Next]_vars

\* The loop thread is scheduled: it takes its next step eventually.
FairSpec == LoopInit /\ [][Next]_vars /\ WF_vars(LoopStep)

\* The check loop on a mailbox that may refuse the \Seen flag.
SeenNext ==
    \/ Next
    \/ FetchUnmarked

SeenSpec == LoopInit /\ [][SeenNext]_vars


(***************************************************************************)
(* RAGService under concurrent callers: the check loop's thread calls      *)
(* add_emails_to_vector_store while threads of the API call                *)
(* rebuild_vector_store, search_emails and ask_question.  No method takes  *)
(* a lock, so the steps of the calls interleave.                           *)
(***************************************************************************)
\* Bound: the mails the callers of the index pass around.
RagMails == 3

RagIds == 1..RagMails

\* Bounds: the rebuild_vector_store and the ask_question calls of a run.
MaxRebuilds == 1
MaxAsks == 1

\* The k of both retrievers (lines 153 and 319) and the k values of search.
RetrieverK == 5
SearchKs == {1, 2, RetrieverK}

\* The enriched record of a mail.  All mails carry the same text; the
\* summary of the last one has a key_points list with a non-string item.
Record(id) ==
    process_email(Email(id),
                  Returns(IF id = RagMails THEN <<"{", "s", "b", "}">>
                                           ELSE <<"{", "s", "}">>),
                  Returns(<<"{", "ih", "cw", "}">>))

\* The lists a caller passes: mails of S in the order of their ids (the
\* order in which get_new_emails returns them).
Batches(S) == {Ascending(T) : T \in SUBSET S}

Records(batch) == [i \in 1..Len(batch) |-> Record(batch[i])]

IdSet(emails) == {emails[i].id : i \in 1..Len(emails)}

addVars == <<add_pc, add_emails, add_failed, add_ret>>
rebVars == <<reb_pc, reb_emails, reb_ret>>
askVars == <<ask_pc, source_docs, context_docs, ask_ret>>
qaVars == <<qa_ready, qa_same, qa_view>>

RagInit ==
    /\ running = FALSE /\ pc = "idle" /\ arrived = 0 /\ unseen = {}
    /\ fetched = [id \in 1..MaxMails |-> 0]
    /\ new_emails = <<>> /\ processed = <<>> /\ enrichIdx = 0
    /\ sent = <<>> /\ cycleRaised = FALSE /\ sleepFor = 0
    /\ notifEnabled = FALSE /\ addCalls = 0 /\ saveCalls = 0
    /\ vector_store = <<Placeholder>>
    /\ snapshot = <<Placeholder>>
    /\ \E chain_ok \in BOOLEAN : RagConstructed(chain_ok)
    /\ OtherUnused

WriterInFlight == add_pc # "idle" \/ reb_pc # "idle"

\* add_emails_to_vector_store is called (lines 203-229): the documents are
\* prepared; with none to add it returns at line 235.
AddCall ==
    /\ ~crashed
    /\ add_pc = "idle"
    /\ \E batch \in Batches(RagIds \ fed) \ {<<>>} :
          /\ add_emails' = Records(batch)
          /\ IF all_docs(Records(batch)) = <<>>
             THEN /\ add_pc' = "idle"
                  /\ add_ret' = [count |-> success_count(Records(batch)), why |-> "ok"]
             ELSE /\ add_pc' = "add"
                  /\ add_ret' = [count |-> 0, why |-> "none"]
    /\ add_failed' = 0
    /\ UNCHANGED <<loopVars, otherVars, vector_store, snapshot, index_files, rebVars,
                   askVars, qaVars, fed, dirtyRead, calls, crashed>>

\* Line 230: one add_documents call embeds the chunks of the whole batch and
\* appends them; if the embedding of a chunk fails the call raises and the
\* handler of line 237 returns 0.
AddDocuments ==
    /\ ~crashed
    /\ add_pc = "add"
    /\ \E f \in {0} \cup {e \in IdSet(add_emails) : ~PrepareRaises(Record(e))} :
          IF f = 0
          THEN /\ vector_store' = vector_store \o all_docs(add_emails)
               /\ qa_view' = IF qa_same THEN vector_store \o all_docs(add_emails)
                             ELSE qa_view
               /\ fed' = fed \cup IdSet(add_emails)
               /\ add_pc' = "save_faiss"
               /\ UNCHANGED <<add_failed, add_ret>>
          ELSE /\ add_failed' = f
               /\ add_ret' = [count |-> 0, why |-> "embed"]
               /\ add_pc' = "idle"
               /\ UNCHANGED <<vector_store, qa_view, fed>>
    /\ UNCHANGED <<loopVars, otherVars, snapshot, index_files, add_emails, rebVars, askVars,
                   qa_ready, qa_same, dirtyRead, calls, crashed>>

\* Line 232, first half of save_local: index.faiss is written in place.
AddSaveFaiss ==
    /\ ~crashed
    /\ add_pc = "save_faiss"
    /\ \E ok \in BOOLEAN :
          IF ok
          THEN /\ index_files' = [index_files EXCEPT !.faiss = vector_store]
               /\ add_pc' = "save_pkl"
               /\ UNCHANGED add_ret
          ELSE /\ add_ret' = [count |-> 0, why |-> "save"]
               /\ add_pc' = "idle"
               /\ UNCHANGED index_files
    /\ UNCHANGED <<loopVars, otherVars, vector_store, snapshot, add_emails, add_failed,
                   rebVars, askVars, qaVars, fed, dirtyRead, calls, crashed>>

\* Line 232, second half of save_local: index.pkl is written in place; the
\* call then returns success_count (line 235).
AddSavePkl ==
    /\ ~crashed
    /\ add_pc = "save_pkl"
    /\ \E ok \in BOOLEAN :
          IF ok
          THEN /\ index_files' = [index_files EXCEPT !.pkl = vector_store]
               /\ snapshot' = IF index_files.faiss = vector_store
                              THEN vector_store ELSE snapshot
               /\ add_ret' = [count |-> success_count(add_emails), why |-> "ok"]
          ELSE /\ add_ret' = [count |-> 0, why |-> "save"]
               /\ UNCHANGED <<index_files, snapshot>>
    /\ add_pc' = "idle"
    /\ UNCHANGED <<loopVars, otherVars, vector_store, add_emails, add_failed,
                   rebVars, askVars, qaVars, fed, dirtyRead, calls, crashed>>

\* rebuild_vector_store is called (lines 379-413): the new store is built
\* in a local; a failed embedding call raises and line 429 returns False.
RebCall ==
    /\ ~crashed
    /\ reb_pc = "idle"
    /\ calls.reb < MaxRebuilds
    /\ calls' = [calls EXCEPT !.reb = @ + 1]
    /\ \E batch \in Batches(RagIds), ok \in BOOLEAN :
          /\ reb_emails' = Records(batch)
          /\ IF ok
             THEN reb_pc' = "replace" /\ reb_ret' = [ok |-> FALSE, why |-> "none"]
             ELSE reb_pc' = "idle" /\ reb_ret' = [ok |-> FALSE, why |-> "embed"]
    /\ UNCHANGED <<loopVars, otherVars, vector_store, snapshot, index_files, addVars,
                   askVars, qaVars, fed, dirtyRead, crashed>>

\* Line 416: self.vector_store = new_vector_store.  The QA chain's retriever
\* keeps the object it was made with.
RebReplace ==
    /\ ~crashed
    /\ reb_pc = "replace"
    /\ vector_store' = rebuild_store(reb_emails)
    /\ qa_same' = FALSE
    /\ fed' = IdSet(reb_emails)
    /\ reb_pc' = "save_faiss"
    /\ UNCHANGED <<loopVars, otherVars, snapshot, index_files, addVars, reb_emails, reb_ret,
                   askVars, qa_ready, qa_view, dirtyRead, calls, crashed>>

\* Line 419, first half of save_local.
RebSaveFaiss ==
    /\ ~crashed
    /\ reb_pc = "save_faiss"
    /\ \E ok \in BOOLEAN :
          IF ok
          THEN /\ index_files' = [index_files EXCEPT !.faiss = vector_store]
               /\ reb_pc' = "save_pkl"
               /\ UNCHANGED reb_ret
          ELSE /\ reb_ret' = [ok |-> FALSE, why |-> "save"]
               /\ reb_pc' = "idle"
               /\ UNCHANGED index_files
    /\ UNCHANGED <<loopVars, otherVars, vector_store, snapshot, addVars, reb_emails,
                   askVars, qaVars, fed, dirtyRead, calls, crashed>>

\* Line 419, second half of save_local.
RebSavePkl ==
    /\ ~crashed
    /\ reb_pc = "save_pkl"
    /\ \E ok \in BOOLEAN :
          IF ok
          THEN /\ index_files' = [index_files EXCEPT !.pkl = vector_store]
               /\ snapshot' = IF index_files.faiss = vector_store
                              THEN vector_store ELSE snapshot
               /\ reb_pc' = "init_qa"
               /\ UNCHANGED reb_ret
          ELSE /\ reb_ret' = [ok |-> FALSE, why |-> "save"]
               /\ reb_pc' = "idle"
               /\ UNCHANGED <<index_files, snapshot>>
    /\ UNCHANGED <<loopVars, otherVars, vector_store, addVars, reb_emails,
                   askVars, qaVars, fed, dirtyRead, calls, crashed>>

\* Lines 422-425: _init_qa_chain (a failure is logged only), return True.
RebInitQa ==
    /\ ~crashed
    /\ reb_pc = "init_qa"
    /\ \E ok \in BOOLEAN :
          IF ok
          THEN qa_ready' = TRUE /\ qa_same' = TRUE /\ qa_view' = vector_store
          ELSE UNCHANGED qaVars
    /\ reb_ret' = [ok |-> TRUE, why |-> "ok"]
    /\ reb_pc' = "idle"
    /\ UNCHANGED <<loopVars, otherVars, vector_store, snapshot, index_files, addVars,
                   reb_emails, askVars, fed, dirtyRead, calls, crashed>>

\* search_emails: one read of self.vector_store.
Search ==
    /\ ~crashed
    /\ dirtyRead' = (dirtyRead \/ WriterInFlight)
    /\ UNCHANGED <<loopVars, otherVars, vector_store, snapshot, index_files, addVars,
                   rebVars, askVars, qaVars, fed, calls, crashed>>

\* ask_question, lines 317-322: the retrieval of source_docs; a failure goes
\* to the handler of line 344.
AskRetrieve ==
    /\ ~crashed
    /\ ask_pc = "idle"
    /\ calls.ask < MaxAsks
    /\ calls' = [calls EXCEPT !.ask = @ + 1]
    /\ \E ok \in BOOLEAN :
          IF ok
          THEN /\ source_docs' = similarity_search(vector_store, RetrieverK)
               /\ ask_ret' = [answer |-> "none", source_documents |-> <<>>]
               /\ ask_pc' = "chain"
               /\ dirtyRead' = (dirtyRead \/ WriterInFlight)
          ELSE /\ source_docs' = <<>>
               /\ ask_ret' = ask_failure
               /\ ask_pc' = "idle"
               /\ UNCHANGED dirtyRead
    /\ context_docs' = <<>>
    /\ UNCHANGED <<loopVars, otherVars, vector_store, snapshot, index_files, addVars,
                   rebVars, qaVars, fed, crashed>>

\* ask_question, lines 325-342: the QA chain retrieves its own context from
\* the store its retriever holds and calls the model; the response carries
\* source_docs.  A chain that is None or a failing call goes to line 344.
AskChain ==
    /\ ~crashed
    /\ ask_pc = "chain"
    /\ \E ok \in BOOLEAN :
          IF qa_ready /\ ok
          THEN /\ context_docs' = similarity_search(qa_view, RetrieverK)
               /\ ask_ret' = [answer |-> "answer", source_documents |-> source_docs]
               /\ dirtyRead' = (dirtyRead \/ WriterInFlight)
          ELSE /\ ask_ret' = ask_failure
               /\ UNCHANGED <<context_docs, dirtyRead>>
    /\ ask_pc' = "idle"
    /\ source_docs' = <<>>
    /\ UNCHANGED <<loopVars, otherVars, vector_store, snapshot, index_files, addVars,
                   rebVars, qaVars, fed, calls, crashed>>

SaveInProgress ==
    add_pc \in {"save_faiss", "save_pkl"} \/ reb_pc \in {"save_faiss", "save_pkl"}

\* The process is killed while save_local runs: what it held in memory is
\* gone, the files stay as they are.
Crash ==
    /\ ~crashed
    /\ SaveInProgress
    /\ crashed' = TRUE
    /\ vector_store' = <<>>
    /\ add_pc' = "idle" /\ add_emails' = <<>> /\ add_failed' = 0
    /\ add_ret' = [count |-> 0, why |-> "none"]
    /\ reb_pc' = "idle" /\ reb_emails' = <<>>
    /\ reb_ret' = [ok |-> FALSE, why |-> "none"]
    /\ ask_pc' = "idle" /\ source_docs' = <<>> /\ context_docs' = <<>>
    /\ ask_ret' = [answer |-> "none", source_documents |-> <<>>]
    /\ qa_ready' = FALSE /\ qa_same' = FALSE /\ qa_view' = <<>>
    /\ fed' = {}
    /\ dirtyRead' = FALSE
    /\ calls' = [reb |-> 0, ask |-> 0]
    /\ UNCHANGED <<loopVars, otherVars, snapshot, index_files>>

RagNext ==
    \/ AddCall
    \/ AddDocuments
    \/ AddSaveFaiss
    \/ AddSavePkl
    \/ RebCall
    \/ RebReplace
    \/ RebSaveFaiss
    \/ RebSavePkl
    \/ RebInitQa
    \/ Search
    \/ AskRetrieve
    \/ AskChain
    \/ Crash

RagSpec == RagInit /\ [][RagNext]_vars


\* The check loop is constructed and not started.
LoopUnused ==
    /\ running = FALSE /\ pc = "idle" /\ arrived = 0 /\ unseen = {}
    /\ fetched = [id \in 1..MaxMails |-> 0]
    /\ new_emails = <<>> /\ processed = <<>> /\ enrichIdx = 0
    /\ sent = <<>> /\ cycleRaised = FALSE /\ sleepFor = 0
    /\ notifEnabled = FALSE /\ addCalls = 0 /\ saveCalls = 0

\* The index is constructed and no caller has used it.
RagUnused ==
    /\ vector_store = <<Placeholder>>
    /\ snapshot = <<Placeholder>>
    /\ RagConstructed(TRUE)


(***************************************************************************)
(* The index from the start of the process: _load_or_init_vector_store     *)
(* finds whatever an earlier process left under VECTOR_DB_PATH, then the   *)
(* writers work on the index.                                              *)
(***************************************************************************)
\* Bound: the mails in the snapshots an earlier process left.
DiskMails == 1

DiskStores == {rebuild_store(Records(b)) : b \in Batches(1..DiskMails)}

\* No file (<<>>), or index.faiss and index.pkl of stores saved earlier; the
\* two differ after a save that did not finish.
DiskStates ==
    {[faiss |-> <<>>, pkl |-> <<>>]}
        \cup [faiss : DiskStores, pkl : DiskStores]

\* FAISS.from_texts(["初始化文档"], embeddings) with nothing in it.
new_vector_storeEmpty == <<>>

\* FAISS.from_texts(["初始化文档"], embeddings), lines 117-120 and 126-129.
new_vector_store == <<Placeholder>>

\* The process is not up: RAGService is not constructed.
IndexInit ==
    /\ LoopUnused
    /\ OtherUnused
    /\ index_files \in DiskStates
    /\ snapshot = index_files.pkl
    /\ vector_store = <<>>
    /\ add_pc = "idle" /\ add_emails = <<>> /\ add_failed = 0
    /\ add_ret = [count |-> 0, why |-> "none"]
    /\ reb_pc = "idle" /\ reb_emails = <<>>
    /\ reb_ret = [ok |-> FALSE, why |-> "none"]
    /\ ask_pc = "idle" /\ source_docs = <<>> /\ context_docs = <<>>
    /\ ask_ret = [answer |-> "none", source_documents |-> <<>>]
    /\ qa_ready = FALSE /\ qa_same = FALSE /\ qa_view = <<>>
    /\ fed = {}
    /\ dirtyRead = FALSE
    /\ calls = [reb |-> 0, ask |-> 0]
    /\ crashed = TRUE
    /\ startup = "none"

\* RAGService.__init__, lines 50-54: _load_or_init_vector_store, then
\* _init_qa_chain on the store it made.
StartupDone(branch, store, chain_ok) ==
    /\ startup' = branch
    /\ vector_store' = store
    /\ qa_ready' = chain_ok /\ qa_same' = TRUE /\ qa_view' = store
    /\ crashed' = FALSE
    /\ UNCHANGED <<loopVars, textVars, threadVars, addVars, rebVars, askVars,
                   fed, dirtyRead, calls>>

\* Lines 107-114: index.faiss exists and load_local returns the store of
\* the files (of either file, when the two differ).
StartupLoad ==
    /\ crashed
    /\ index_files.faiss # <<>>
    /\ \E store \in {index_files.faiss, index_files.pkl}, chain_ok \in BOOLEAN :
          StartupDone("loaded", store, chain_ok)
    /\ UNCHANGED <<index_files, snapshot>>

\* Lines 115-123: no index.faiss; the new store is saved.  A save that
\* raises leads to the handler of line 124, which makes the store again.
StartupInit ==
    /\ crashed
    /\ index_files.faiss = <<>>
    /\ \E saved \in BOOLEAN, chain_ok \in BOOLEAN :
          /\ StartupDone("initialized", new_vector_store, chain_ok)
          /\ IF saved
             THEN /\ index_files' = [faiss |-> new_vector_store,
                                     pkl |-> new_vector_store]
                  /\ snapshot' = new_vector_store
             ELSE UNCHANGED <<index_files, snapshot>>

\* Lines 124-129: index.faiss exists and load_local raises; the new store is
\* not saved.
StartupLoadFails ==
    /\ crashed
    /\ index_files.faiss # <<>>
    /\ \E chain_ok \in BOOLEAN :
          StartupDone("fallback", new_vector_store, chain_ok)
    /\ UNCHANGED <<index_files, snapshot>>

IndexNext ==
    \/ StartupLoad
    \/ StartupInit
    \/ StartupLoadFails
    \/ AddCall
    \/ AddDocuments
    \/ AddSaveFaiss
    \/ AddSavePkl
    \/ RebCall
    \/ RebReplace
    \/ RebSaveFaiss
    \/ RebSavePkl
    \/ RebInitQa

IndexSpec == IndexInit /\ [][IndexNext]_vars


(***************************************************************************)
(* start() and stop() (main.py), with every thread they create.  A thread  *)
(* is at the test of the while loop ("loop"), in get_new_emails ("fetch"), *)
(* in the enrich, index and notify stages ("work"), in time.sleep          *)
(* ("sleep") or over ("exited").  One caller calls start() and stop(), one *)
(* call after the other.                                                   *)
(***************************************************************************)
Threads == 1..MaxThreads

Alive == {t \in Threads : threads[t] \in {"loop", "fetch", "work", "sleep"}}

\* The threads inside a cycle.
InCycle == {t \in Threads : threads[t] \in {"fetch", "work"}}

\* What start(), stop() and the loop threads leave alone.
besideThreads ==
    <<pc, arrived, unseen, fetched, new_emails, processed, enrichIdx, sent,
      cycleRaised, sleepFor, notifEnabled, addCalls, saveCalls, vector_store,
      snapshot, ragVars, textVars, startup>>

ThreadInit ==
    /\ LoopUnused
    /\ RagUnused
    /\ OtherUnused

\* start(), lines 83-88: the flag is set and a new thread is created and
\* started, whatever email_check_thread holds.
StartCall ==
    /\ stop_pc \in {"idle", "returned"}
    /\ \E t \in Threads :
          /\ threads[t] \in {"none", "exited"}
          /\ threads' = [threads EXCEPT ![t] = "loop"]
          /\ email_check_thread' = t
    /\ running' = TRUE
    /\ stop_pc' = "idle"
    /\ UNCHANGED <<connection, besideThreads>>

\* stop(), lines 97-100: the flag is cleared; join is called if the thread
\* of email_check_thread is alive.
StopCall ==
    /\ stop_pc \in {"idle", "returned"}
    /\ running' = FALSE
    /\ stop_pc' = IF email_check_thread \in Alive THEN "join" ELSE "disconnect"
    /\ UNCHANGED <<threads, email_check_thread, connection, besideThreads>>

\* join(timeout=5) returns because the thread is over.
StopJoinReturns ==
    /\ stop_pc = "join"
    /\ email_check_thread \notin Alive
    /\ stop_pc' = "disconnect"
    /\ UNCHANGED <<running, threads, email_check_thread, connection, besideThreads>>

\* join(timeout=5) returns after 5 seconds with the thread alive.
StopJoinTimeout ==
    /\ stop_pc = "join"
    /\ email_check_thread \in Alive
    /\ stop_pc' = "disconnect"
    /\ UNCHANGED <<running, threads, email_check_thread, connection, besideThreads>>

\* stop(), lines 102-105: email_receiver.disconnect(), then the return.
StopDisconnect ==
    /\ stop_pc = "disconnect"
    /\ connection' = FALSE
    /\ stop_pc' = "returned"
    /\ UNCHANGED <<running, threads, email_check_thread, besideThreads>>

\* while self.running, line 112: true.
ThreadCycleStart(t) ==
    /\ threads[t] = "loop"
    /\ running
    /\ threads' = [threads EXCEPT ![t] = "fetch"]
    /\ UNCHANGED <<running, email_check_thread, stop_pc, connection, besideThreads>>

\* while self.running, line 112: false, the thread ends.
ThreadExit(t) ==
    /\ threads[t] = "loop"
    /\ ~running
    /\ threads' = [threads EXCEPT ![t] = "exited"]
    /\ UNCHANGED <<running, email_check_thread, stop_pc, connection, besideThreads>>

\* get_new_emails: _ensure_connection opens the connection if there is
\* none; without connection or without mail the cycle is over.
ThreadFetch(t) ==
    /\ threads[t] = "fetch"
    /\ \E ok \in BOOLEAN, some \in BOOLEAN :
          /\ connection' = (connection \/ ok)
          /\ threads' = [threads EXCEPT ![t] = IF (connection \/ ok) /\ some
                                                THEN "work" ELSE "sleep"]
    /\ UNCHANGED <<running, email_check_thread, stop_pc, besideThreads>>

\* The enrich, index and notify stages run to their end.
ThreadWork(t) ==
    /\ threads[t] = "work"
    /\ threads' = [threads EXCEPT ![t] = "sleep"]
    /\ UNCHANGED <<running, email_check_thread, stop_pc, connection, besideThreads>>

\* time.sleep returns.
ThreadWake(t) ==
    /\ threads[t] = "sleep"
    /\ threads' = [threads EXCEPT ![t] = "loop"]
    /\ UNCHANGED <<running, email_check_thread, stop_pc, connection, besideThreads>>

ThreadStep ==
    \E t \in Threads :
        \/ ThreadCycleStart(t)
        \/ ThreadExit(t)
        \/ ThreadFetch(t)
        \/ ThreadWork(t)
        \/ ThreadWake(t)

ThreadNext ==
    \/ StartCall
    \/ StopCall
    \/ StopJoinReturns
    \/ StopJoinTimeout
    \/ StopDisconnect
    \/ ThreadStep

ThreadSpec == ThreadInit /\ [][ThreadNext]_vars


(***************************************************************************)
(* The parsing of a model response, on its own: every short response.     *)
(***************************************************************************)
\* Bound: the length of a response, in tokens.
MaxResponse == 4

\* "p" is prose.
ResponseTokens == {"{", "}", "s", "ih", "p"}

Responses == UNION {[1..n -> ResponseTokens] : n \in 0..MaxResponse}

ParseInit ==
    /\ LoopUnused
    /\ RagUnused
    /\ TextUnused
    /\ ThreadsUnused
    /\ result_text \in Responses
    /\ parsed = <<>>

\* _summarize_email, lines 236-254, on the response.
ParseSummary ==
    /\ parsed = <<>>
    /\ parsed' = <<[by |-> "summarize", value |-> summarize_email(Returns(result_text))]>>
    /\ UNCHANGED <<loopVars, vector_store, snapshot, ragVars, startup, threadVars,
                   raw_mail,
                   email_content, cls_input, result_text>>

\* _classify_importance, lines 276-294, on the response.
ParseClassification ==
    /\ parsed = <<>>
    /\ parsed' = <<[by |-> "classify", value |-> classify_importance(Returns(result_text))]>>
    /\ UNCHANGED <<loopVars, vector_store, snapshot, ragVars, startup, threadVars,
                   raw_mail,
                   email_content, cls_input, result_text>>

ParseNext ==
    \/ ParseSummary
    \/ ParseClassification

ParseSpec == ParseInit /\ [][ParseNext]_vars


(***************************************************************************)
(* The text of a mail, on its own: Email.from_mime_message,                *)
(* _prepare_email_content and the cut of _classify_importance.  A text is  *)
(* told by its length and by the date written in it.                       *)
(***************************************************************************)
\* The literal of _classify_importance, line 260.
T2 == 2000

\* "主题: ", "发件人: ", "收件人: ", "日期: " and the 19 characters of the
\* date, as _clean_content leaves them with every other header part empty.
MinHeader == 38

\* Bounds: the characters of subject, sender and recipients; the builds of
\* one raw mail; the seconds of the clock.
HeaderSpan == 2
MaxBuilds == 2
MaxClock == 2

HeaderLens == MinHeader..(MinHeader + HeaderSpan)

\* Body lengths: short ones, and those around the cut.
BodyLens == {b \in 0..(T2 + 1) : b <= 1 \/ b >= T2 - MinHeader - HeaderSpan - 1}

DateHeaders == {"ok", "missing", "bad"}

Clock == 1..MaxClock

\* Email._parse_date: the date of the header, or datetime.now() when the
\* header is missing or parsedate_to_datetime raises.
parse_date(date_str, now) ==
    IF date_str = "ok" THEN [of |-> "header", second |-> 0]
    ELSE [of |-> "now", second |-> now]

\* Email.from_mime_message, as far as the text needs it.
from_mime_message(raw, now) ==
    [date |-> parse_date(raw.date, now), header |-> raw.header, body |-> raw.body]

\* _prepare_email_content: subject, sender, recipients, date and body in one
\* text.
prepare_email_content(email) ==
    [date |-> email.date.second, len |-> email.header + email.body,
     body |-> email.body]

\* The cut taken when the body alone is longer than T2.
classification_textByBody(content) ==
    IF content.body > T2 THEN [kept |-> T2, ellipsis |-> TRUE]
    ELSE [kept |-> content.len, ellipsis |-> FALSE]

\* _classify_importance, lines 259-261: the characters of email_content that
\* reach the prompt, and whether "..." follows them.
classification_text(content) ==
    IF content.len > T2 THEN [kept |-> T2, ellipsis |-> TRUE]
    ELSE [kept |-> content.len, ellipsis |-> FALSE]

TextInit ==
    /\ LoopUnused
    /\ RagUnused
    /\ ParseUnused
    /\ ThreadsUnused
    /\ raw_mail \in [date : DateHeaders, header : HeaderLens, body : BodyLens]
    /\ email_content = <<>>
    /\ cls_input = <<>>

\* The record is built from the raw mail and its text prepared.
BuildContent ==
    /\ Len(email_content) < MaxBuilds
    /\ cls_input = <<>>
    /\ \E now \in Clock :
          email_content' = Append(email_content,
                                  prepare_email_content(from_mime_message(raw_mail, now)))
    /\ UNCHANGED <<loopVars, vector_store, snapshot, ragVars, startup, threadVars,
                   raw_mail,
                   cls_input, result_text, parsed>>

\* _classify_importance is called with the text built last.
Classify ==
    /\ email_content # <<>>
    /\ cls_input = <<>>
    /\ cls_input' = <<classification_text(email_content[Len(email_content)])>>
    /\ UNCHANGED <<loopVars, vector_store, snapshot, ragVars, startup, threadVars,
                   raw_mail,
                   email_content, result_text, parsed>>

TextNext ==
    \/ BuildContent
    \/ Classify

TextSpec == TextInit /\ [][TextNext]_vars


(***************************************************************************)
(* Properties.                                                             *)
(***************************************************************************)
\* The mails of the cycle's batch whose importance is high, in batch order.
HighOf(emails) == SelectSeq(emails, LAMBDA e : e.importance = "high")

\* A cycle that ran to its end without an exception is asleep.
CycleDone == pc = "sleep" /\ ~cycleRaised

AllDelivered == \A i \in 1..Len(sent) : sent[i].ok

\* C1: with notifications enabled and the send primitive succeeding, a cycle
\* whose batch holds N high-importance mails calls the send primitive once
\* with the aggregated message when N >= 2, once with the single-mail message
\* when N = 1 and not at all when N = 0; the number of messages is never N
\* when N >= 2.
C1_NotificationBatching ==
    (CycleDone /\ notifEnabled /\ AllDelivered) =>
        LET N == Len(HighOf(processed))
        IN /\ (N >= 2 => Len(sent) = 1 /\ sent[1].kind = "batch")
           /\ (N = 1 => Len(sent) = 1 /\ sent[1].kind = "single")
           /\ (N = 0 => sent = <<>>)
           /\ (N >= 2 => Len(sent) # N)

C1_Witness ==
    /\ CycleDone /\ notifEnabled
    /\ Len(HighOf(processed)) >= 2
    /\ Len(sent) = 1 /\ sent[1].kind = "batch" /\ sent[1].ok

\* C2: the notification of a cycle names exactly the high-importance mails
\* of that cycle's batch, in batch order: every high mail, no mail of another
\* importance and no mail that is not of this cycle's fetch.
C2_NotificationNamesHighMails ==
    (CycleDone /\ notifEnabled) =>
        /\ \A i \in 1..Len(sent) :
              /\ sent[i].ids = Ids(HighOf(processed))
              /\ \A k \in 1..Len(sent[i].ids) :
                    \E m \in 1..Len(new_emails) : new_emails[m].id = sent[i].ids[k]
        /\ (HighOf(processed) # <<>> => sent # <<>>)

C2_Witness ==
    /\ CycleDone /\ notifEnabled
    /\ Len(processed) = 3
    /\ processed[1].importance = "high"
    /\ processed[2].importance = "medium"
    /\ processed[3].importance = "high"
    /\ Len(sent) = 1 /\ sent[1].kind = "batch"
    /\ sent[1].ids = <<processed[1].id, processed[3].id>>


\* The mails of the current cycle that process_email has returned.
Enriched == 1..Len(processed)

C4_EmptyFetchDoesNothing ==
    (CycleDone /\ new_emails = <<>>) =>
        /\ processed = <<>>
        /\ enrichIdx = 0
        /\ addCalls = 0
        /\ saveCalls = 0
        /\ sent = <<>>
        /\ sleepFor = CheckInterval

C4_Witness ==
    /\ CycleDone /\ new_emails = <<>>
    /\ unseen # {}
    /\ Len(vector_store) > 1
    /\ sleepFor = CheckInterval

\* C5: within process_email the classification call is made whatever the
\* outcome of the summarization call.
C5_CallsIndependent ==
    \A i \in Enriched :
        processed[i].sumCalls = 1 => processed[i].clsCalls = 1

\* C6: batch_process_emails returns exactly the mails it was given, each
\* once and in place, whatever enrichment failures occur, and goes on with
\* the next mail after a failure.
C6_BatchKeepsEveryMail ==
    /\ Len(processed) = enrichIdx
    /\ Len(processed) <= Len(new_emails)
    /\ \A i \in 1..Len(processed) : processed[i].id = new_emails[i].id
    /\ (pc = "notify" \/ CycleDone) => Len(processed) = Len(new_emails)

C6_Witness ==
    /\ pc = "notify"
    /\ Len(processed) = 3
    /\ processed[1].clsCalls = 0
    /\ ~processed[2].clsApplied /\ processed[2].summary = "none"
    /\ processed[3].clsApplied /\ processed[3].summary = "text"

\* The embedding call of the cycle's add_documents failed.
EmbeddingFailed == addCalls = 1 /\ saveCalls = 0

Indexed(id) == \E j \in 1..Len(vector_store) : vector_store[j].email_id = id

\* C7: once the index stage of a cycle is over (its embedding call not having
\* failed), every fetched mail has chunks in the index, and a mail without
\* summary has its body there.
C7_EveryFetchedMailIndexed ==
    (pc = "notify" /\ ~EmbeddingFailed) =>
        \A i \in 1..Len(new_emails) :
            /\ Indexed(new_emails[i].id)
            /\ \E j \in 1..Len(vector_store) :
                  /\ vector_store[j].email_id = new_emails[i].id
                  /\ vector_store[j].part = "body"

ErrorSends == SelectSeq(sent, LAMBDA a : a.kind = "error")

\* C9: a cycle in which a stage raised attempts exactly one error
\* notification and then waits the 60-second backoff.
C9_ErrorBackoff ==
    (pc = "sleep" /\ cycleRaised) =>
        /\ (notifEnabled => Len(ErrorSends) = 1)
        /\ sleepFor = Backoff

FailedDispatches ==
    SelectSeq(sent, LAMBDA a : a.kind \in {"batch", "single"} /\ ~a.ok)

\* C11: a notification whose delivery failed (the send primitive returned
\* false or raised) leaves the cycle a normal one: the dispatch returns, the
\* cycle goes to its normal sleep, and neither the error notification nor the
\* exception handler of the cycle is triggered.
C11_DeliveryFailureKeepsCycle ==
    FailedDispatches # <<>> =>
        /\ pc = "sleep"
        /\ ~cycleRaised
        /\ ErrorSends = <<>>
        /\ sleepFor = CheckInterval

C11_Witness ==
    /\ pc = "sleep"
    /\ Len(FailedDispatches) = 1
    /\ FailedDispatches[1].kind = "single"
    /\ Len(processed) = 2

\* C8: while the running flag is true, a cycle in which a stage raised is
\* followed by a further cycle: the loop reaches its next fetch unless the
\* flag is cleared.
C8_LoopSurvivesErrors ==
    [](cycleRaised => <>(pc = "fetch" \/ ~running))

\* A further cycle has started after one in which a stage raised.
C8_Witness ==
    /\ pc = "fetch"
    /\ cycleRaised
    /\ running


(***************************************************************************)
(* Properties of RAGService (specification RagSpec).                       *)
(***************************************************************************)
Persisted(id) ==
    /\ \E j \in 1..Len(index_files.faiss) : index_files.faiss[j].email_id = id
    /\ \E j \in 1..Len(index_files.pkl) : index_files.pkl[j].email_id = id

\* The mails of the last Add's batch that have chunks in the index.
AddIndexed == {id \in IdSet(add_emails) : Indexed(id)}

\* C12: when the embedding call of an Add failed on the chunks of one mail,
\* every other mail of the batch (whose document could be prepared) is in
\* the index and persisted, and the count returned is the number of mails of
\* the batch that were indexed.
C12_EmbeddingFailureAbortsOneMail ==
    (add_pc = "idle" /\ add_failed # 0 /\ reb_pc = "idle" /\ calls.reb = 0) =>
        /\ \A i \in 1..Len(add_emails) :
              (add_emails[i].id # add_failed /\ ~PrepareRaises(add_emails[i])) =>
                  Indexed(add_emails[i].id) /\ Persisted(add_emails[i].id)
        /\ add_ret.count = Cardinality(AddIndexed)

\* C13: an Add or Rebuild whose snapshot save failed reports the failure
\* (Add returns 0, Rebuild returns False) and leaves the index that searches
\* consult equal to the persisted snapshot.
C13_SaveFailureKeepsSnapshot ==
    /\ (add_pc = "idle" /\ add_ret.why = "save" /\ calls.reb = 0) =>
           add_ret.count = 0 /\ vector_store = snapshot
    /\ (reb_pc = "idle" /\ reb_ret.why = "save" /\ add_ret.why = "none"
          /\ add_pc = "idle") =>
           ~reb_ret.ok /\ vector_store = snapshot

\* C14: after a crash during a save, the files on disk are one complete
\* snapshot: index.faiss and index.pkl belong to the same store.
C14_SaveIsCrashAtomic ==
    crashed => index_files.faiss = index_files.pkl

\* No call of add_emails_to_vector_store was made so far.
NoAddYet == add_pc = "idle" /\ add_ret.why = "none"

\* C15: after a Rebuild reported success (no Add running beside it), the
\* index has chunks of every record it was given and no entry besides the
\* placeholder that is not derived from them.
C15_RebuildHoldsExactlyM ==
    (reb_pc = "idle" /\ reb_ret.ok /\ NoAddYet) =>
        /\ \A i \in 1..Len(reb_emails) : Indexed(reb_emails[i].id)
        /\ \A j \in 1..Len(vector_store) :
              vector_store[j].email_id \in IdSet(reb_emails) \cup {0}

ChunkSet(store) == {store[j] : j \in 1..Len(store)}

\* C16: the index built and persisted by Adds alone, in whatever order and
\* batches, has
\* the chunk set of Rebuild(M) for the set M of the mails fed, and the same
\* top-1 search result.
C16_OrderIndependent ==
    (~WriterInFlight /\ calls.reb = 0 /\ vector_store = snapshot /\ ~crashed) =>
        LET R == rebuild_store(Records(Ascending(fed)))
        IN /\ ChunkSet(vector_store) = ChunkSet(R)
           /\ search_emails(vector_store, 1) = search_emails(R, 1)

\* C17: a search with k (on an index no writer is working on) returns at
\* most k entries, the k closest ones in the order of their distance,
\* entries of equal distance by ascending mail id.
C17_SearchRankedTiesById ==
    (~WriterInFlight /\ calls.reb = 0 /\ vector_store = snapshot /\ ~crashed) =>
        \A k \in SearchKs :
            LET r == search_emails(vector_store, k)
            IN /\ Len(r) <= k
               /\ \A i \in 1..(Len(r) - 1) :
                     \/ Distance(r[i]) < Distance(r[i + 1])
                     \/ /\ Distance(r[i]) = Distance(r[i + 1])
                        /\ r[i].email_id <= r[i + 1].email_id
               /\ \A j \in 1..Len(vector_store) :
                     (Len(r) > 0 /\ Distance(vector_store[j]) < Distance(r[Len(r)])) =>
                         \E i \in 1..Len(r) : r[i] = vector_store[j]

\* C18: ask_question never raises; a failed retrieval, a failed completion
\* call and a QA chain that was never initialised each give a result whose
\* answer reports the error and whose source list is empty.
C18_AskNeverRaises ==
    /\ ask_ret.answer \in {"none", "answer", "error"}
    /\ (ask_ret.answer = "error" => ask_ret.source_documents = <<>>)
    /\ (calls.ask > 0 /\ ask_pc = "idle") => ask_ret.answer \in {"answer", "error"}
    /\ (~qa_ready => ask_ret.answer # "answer")

C18_Witness ==
    /\ calls.ask = 1
    /\ ask_pc = "idle"
    /\ ~qa_ready
    /\ Len(vector_store) > 1
    /\ ask_ret.answer = "error"
    /\ ask_ret.source_documents = <<>>

\* C19: the source list of a successful Ask is the list of chunks the QA
\* chain gave the model as context.
C19_SourcesAreContext ==
    ask_ret.answer = "answer" => ask_ret.source_documents = context_docs

\* C20: at most one Add or Rebuild is in flight, and no search reads the
\* index while one is.
C20_SingleWriter ==
    /\ ~(add_pc # "idle" /\ reb_pc # "idle")
    /\ ~dirtyRead

\* The entries of a list that name no owning mail: the placeholder text of
\* line 119 is stored without metadata.
Unowned(docs) == {j \in 1..Len(docs) : docs[j].email_id = 0}

\* C29: every entry of the index, every result of a search and every source
\* of an answer names the mail it belongs to.
C29_EveryEntryNamesItsMail ==
    ~crashed =>
        /\ Unowned(vector_store) = {}
        /\ \A k \in SearchKs : Unowned(search_emails(vector_store, k)) = {}
        /\ Unowned(ask_ret.source_documents) = {}

\* C30: once every Add and Rebuild call has returned, the retriever of the
\* QA chain reads the index object that search_emails and the source
\* retrieval of ask_question read.
C30_ChainReadsTheServedIndex ==
    (~crashed /\ ~WriterInFlight /\ qa_ready) =>
        (qa_same /\ qa_view = vector_store)

\* The enrichment of a record failed: a completion call was made for it and
\* its result was not written to the record.
EnrichmentFailed(e) ==
    \/ e.sumCalls = 1 /\ e.summary = "none"
    \/ ~e.clsApplied

\* C26: each completion call is made at most once per mail and cycle, and a
\* mail whose enrichment failed is still UNSEEN when its cycle is over, so
\* that the fetch of a later cycle returns it again.
C26_FailedEnrichmentFetchedAgain ==
    /\ \A i \in Enriched : processed[i].sumCalls <= 1 /\ processed[i].clsCalls <= 1
    /\ CycleDone =>
          \A i \in Enriched :
              EnrichmentFailed(processed[i]) => processed[i].id \in unseen

\* C27: every mail id is returned by at most one fetch and has its chunks
\* in the index at most once, whether or not the server took the \Seen flag.
C27_FetchedAndIndexedOnce ==
    /\ \A id \in 1..MaxMails : fetched[id] <= 1
    /\ \A i, j \in 1..Len(vector_store) :
          (vector_store[i] = vector_store[j]) => i = j

\* The first balanced span of a text: from its first "{" to the "}" that
\* closes it.
BraceDepth(text, from, to) ==
    Cardinality({i \in from..to : text[i] = "{"})
      - Cardinality({i \in from..to : text[i] = "}"})

FirstBalancedSpan(text) ==
    LET opens  == {i \in 1..Len(text) : text[i] = "{"}
        first  == CHOOSE i \in opens : \A j \in opens : i <= j
        closes == {j \in first..Len(text) : BraceDepth(text, first, j) = 0}
        close  == CHOOSE j \in closes : \A k \in closes : j <= k
    IN IF opens = {} THEN [found |-> FALSE, span |-> <<>>]
       ELSE IF closes = {} THEN [found |-> FALSE, span |-> <<>>]
       ELSE [found |-> TRUE, span |-> SubSeq(text, first, close)]

OrderedFallback(text) ==
    LET direct == json_loads(text)
        m      == FirstBalancedSpan(text)
    IN IF direct.ok THEN direct.value
       ELSE IF m.found /\ json_loads(m.span).ok THEN json_loads(m.span).value
       ELSE NoneValue

\* C28: both calls parse the response as a whole, else its first balanced
\* {...} span, else give nothing.
C28_FirstBalancedSpanParsed ==
    \A i \in 1..Len(parsed) : parsed[i].value = OrderedFallback(result_text)

\* The text the classification call was made for.
Composed == email_content[Len(email_content)]

\* C24 (as claimed): for a body of at most T2 characters the prompt gets the
\* whole composed text and no ellipsis.
C24_BodyWithinT2Unmodified ==
    (cls_input # <<>> /\ raw_mail.body <= T2) =>
        cls_input[1] = [kept |-> Composed.len, ellipsis |-> FALSE]

\* C24 (amended): the composed text is what is measured: one of at most T2
\* characters reaches the prompt whole and without ellipsis, a longer one
\* as its first T2 characters followed by the ellipsis.
C24_ComposedWithinT2Unmodified ==
    cls_input # <<>> =>
        IF Composed.len <= T2
        THEN cls_input[1] = [kept |-> Composed.len, ellipsis |-> FALSE]
        ELSE cls_input[1] = [kept |-> T2, ellipsis |-> TRUE]

C24_Witness ==
    /\ cls_input # <<>>
    /\ raw_mail.body <= T2
    /\ Composed.len > T2
    /\ cls_input[1] = [kept |-> T2, ellipsis |-> TRUE]

\* C25: two builds of the same raw mail give the same text.
C25_NormalizationDeterministic ==
    \A i, j \in 1..Len(email_content) : email_content[i] = email_content[j]

\* C23: the index of a constructed service has at least one entry, after
\* each of the three startup cases and after any Add and Rebuild calls; a
\* start without snapshot gives exactly the placeholder entry.
C23_IndexNeverEmpty ==
    ~crashed =>
        /\ Len(vector_store) >= 1
        /\ (startup = "initialized" /\ calls.reb = 0 /\ fed = {}) =>
               vector_store = <<Placeholder>>

C23_Witness ==
    /\ ~crashed
    /\ startup = "fallback"
    /\ add_pc = "idle" /\ add_ret.why = "embed"
    /\ reb_pc = "idle" /\ reb_ret.why = "save"
    /\ Len(vector_store) >= 1

\* C21: whatever start() and stop() calls were made, at most one check
\* loop is alive and at most one cycle is running.
C21_OneCheckLoop ==
    /\ Cardinality(Alive) <= 1
    /\ Cardinality(InCycle) <= 1

\* C22: once the join of stop() is over, and after stop() has returned, no
\* cycle is in flight: none was cut off and none was started.
C22_StopWaitsForTheCycle ==
    stop_pc \in {"disconnect", "returned"} => InCycle = {}

====
